---------------------------- MODULE Spec2Model ----------------------------
(***************************************************************************)
(* CanvasView (src/src/CanvasView.js): the interaction state machine, the  *)
(* orbit camera, the Idle Monitor, the Auto-Fit solver and label placement *)
(* of the surface editor.                                                  *)
(*                                                                         *)
(* Units.  Angles are integers in micro-radians, zoom and the normalized   *)
(* device coordinates of projected points are integers in thousandths,     *)
(* the Auto-Fit speed is in hundredths (speed 1 = 100), pixel positions of *)
(* the label anchor are in half pixels, and the wall clock is counted in   *)
(* quanta of which TicksPerTimeout make the Idle Monitor's period.         *)
(*                                                                         *)
(* setState is applied synchronously: every caller is a native listener,   *)
(* a timer or a frame callback, outside React's batching.                  *)
(***************************************************************************)
EXTENDS Integers, Sequences, FiniteSets, TLC

VARIABLES
    action,         \* this.state.action ("null" when nothing is selected)
    coordinates,    \* this.state.coordinates
    anchor,         \* <<2*coordinatesX, 2*coordinatesY>>, <<>> while undefined
    since,          \* now - this.state.lastInteraction, saturating above timeout
    idles,          \* this.state.idles
    tutorial,       \* this.state.tutorial
    lastTutorial,   \* this.state.lastTutorial
    prevent,        \* this.preventKeysExceptTutorial
    azimuth,        \* this.azimuth
    altitude,       \* this.altitude
    zoom,           \* this.camera.zoom
    controls,       \* this.surface.controls
    tweens,         \* the surface's running tweens, oldest first
    checks,         \* pending setTimeout(checkLastInteraction): remaining quanta
    frames,         \* pending requestAnimationFrame callbacks of zoomToFit: speeds
    throttle,       \* _.throttle(toggle, 250): window open, arguments held back
    rendered,       \* <<azimuth, altitude, zoom>> of the camera in the last rendered frame
    fx,             \* what the last handled callback did (observable effects)
    input           \* the arguments drawn for the pure-function specifications

vars == <<action, coordinates, anchor, since, idles, tutorial, lastTutorial,
          prevent, azimuth, altitude, zoom, controls, tweens, checks, frames,
          throttle, rendered, fx, input>>

-----------------------------------------------------------------------------
(* Bounds of the model *)

TicksPerTimeout == 1
TutorialSteps == 2
MaxPendingFrames == 1
MaxLabel == 4
MaxCanvas == 4
LoopBudget == 700
ZoomMax == 1100
AzimuthSpan == 2400000
DriftSpan == 3000

(* Program constants *)

IdleThreshold == 9
HALF_PI == 1570796
AltitudePerDelta == 5000
AltitudePerDelta0 == 800
virtualMinLower == -950
virtualMinUpper == -900
virtualMaxLower == 900
virtualMaxUpper == 950
ProbeSteps == 10
LabelMargin == 15
Infinity == 1000000

Milli == 10 * 100

NULL == "null"
UNDEFINED == "undefined"

\* this.keys
keys ==
    [c \in {85, 86, 73, 87, 69, 74, 75, 76, 66, 72, 68, 65, 88} |->
        CASE c = 85 -> "XY Camera Rotation"
          [] c = 86 -> "YZ Camera Rotation"
          [] c = 73 -> "Select Control Point"
          [] c = 87 -> "Zoom"
          [] c = 69 -> "DISPLAY"
          [] c = 74 -> "Move Control Point Along X Axis"
          [] c = 75 -> "Move Control Point Along Y Axis"
          [] c = 76 -> "Move Control Point Along Z Axis"
          [] c = 66 -> "RESTORE"
          [] c = 72 -> "EXIT"
          [] c = 68 -> "TUTORIAL"
          [] c = 65 -> "MORPH"
          [] c = 88 -> "ZOOMTOFIT"]

\* the names of this.actions: the actions with a wheel handler
actions ==
    {"Select Control Point", "XY Camera Rotation", "YZ Camera Rotation", "Zoom",
     "Move Control Point Along X Axis", "Move Control Point Along Y Axis",
     "Move Control Point Along Z Axis"}

AxisActions ==
    {"Move Control Point Along X Axis", "Move Control Point Along Y Axis",
     "Move Control Point Along Z Axis"}

\* const timeout = 25 * 1000, in clock quanta
timeout == TicksPerTimeout

\* tutorialManager.steps
steps == TutorialSteps

\* Math.round(a / b) for b > 0: the nearest integer, halves upwards
Round(a, b) == (2 * a + b) \div (2 * b)

Abs(x) == IF x < 0 THEN -x ELSE x

-----------------------------------------------------------------------------
(* The program state as one record, so that a handler is a function of it *)

World ==
    [action |-> action, coordinates |-> coordinates, anchor |-> anchor,
     since |-> since, idles |-> idles, tutorial |-> tutorial,
     lastTutorial |-> lastTutorial, prevent |-> prevent, azimuth |-> azimuth,
     altitude |-> altitude, zoom |-> zoom, controls |-> controls,
     tweens |-> tweens, checks |-> checks, frames |-> frames,
     throttle |-> throttle, rendered |-> rendered, fx |-> fx]

NoFx(op, arg) ==
    [op |-> op, arg |-> arg, cmds |-> <<>>, draws |-> 0, reload |-> FALSE,
     calls |-> <<>>, probes |-> 0, halted |-> 0]

\* constructor and componentDidMount: the state of a freshly mounted view
Mounted ==
    [action |-> NULL, coordinates |-> FALSE, anchor |-> <<>>,
     since |-> 0, idles |-> 0, tutorial |-> -1, lastTutorial |-> -1,
     prevent |-> FALSE, azimuth |-> HALF_PI \div 4, altitude |-> HALF_PI \div 2,
     zoom |-> Milli, controls |-> FALSE, tweens |-> <<>>,
     checks |-> <<timeout>>, frames |-> <<>>,
     throttle |-> [open |-> FALSE, args |-> <<>>],
     rendered |-> <<HALF_PI \div 4, HALF_PI \div 2, Milli>>, fx |-> NoFx("mount", 0)]

Begin(w, op, arg) == [w EXCEPT !.fx = NoFx(op, arg)]

\* a command sent to the surface collaborator
Cmd(w, c) == [w EXCEPT !.fx.cmds = Append(@, c)]

\* window.location.reload(true): the handler runs on, then the page is torn down
Reload(w) == [w EXCEPT !.fx.reload = TRUE]

\* the state the callback leaves: a reloaded page is a freshly mounted view
Finish(w) == IF w.fx.reload THEN [Mounted EXCEPT !.fx = w.fx] ELSE w

-----------------------------------------------------------------------------
(* The surface collaborator (./Surface is not part of the sources): stop()  *)
(* halts every running tween without completing it, randomize, restore and  *)
(* randomizeCloseToOriginal start one tween, an active control point exists *)
(* exactly while the point-editing controls are active.                     *)

SurfaceStop(w) ==
    Cmd([w EXCEPT !.tweens = <<>>, !.fx.halted = @ + Len(w.tweens)], "stop")

StartTween(w, kind) == Cmd([w EXCEPT !.tweens = Append(@, kind)], kind)

ActivateControls(w) == Cmd([w EXCEPT !.controls = TRUE], "activateControls")

DeactivateControls(w) == Cmd([w EXCEPT !.controls = FALSE], "deactivateControls")

HasActiveControlPoint(w) == w.controls

-----------------------------------------------------------------------------
(* Label placement *)

ClampNearFirst(x2, size, extent) ==
    LET near == IF x2 - size < 0 THEN size ELSE x2
    IN  IF near + size > 2 * extent THEN 2 * extent - size ELSE near

ClampNever(x2, size, extent) == x2

\* the right and left clamps of positionCoordinates, on a doubled coordinate
ClampFarFirst(x2, size, extent) ==
    LET far == IF x2 + size > 2 * extent THEN 2 * extent - size ELSE x2
    IN  IF far - size < 0 THEN size ELSE far

\* the doubled pixel anchor: n is the projected coordinate, sgn the side the
\* label is pushed to, size the label's and extent the canvas's extent
Naive(n, flip, size, extent, dpr) ==
    LET side == IF n < 0 THEN -1 ELSE 1
        d2 == flip * side * size + flip * side * 2 * LabelMargin
        px == Round((flip * n + Milli) * extent, 2 * Milli * dpr)
    IN  2 * px + d2

Anchor(n, flip, size, extent, dpr) ==
    ClampFarFirst(Naive(n, flip, size, extent, dpr), size, extent)

\* positionCoordinates(): lab is the projected active point (nx, ny), the
\* measured label (width, height), the canvas (cw, ch) and devicePixelRatio
positionCoordinates(w, lab) ==
    IF ~HasActiveControlPoint(w) THEN w
    ELSE [w EXCEPT !.anchor =
            <<Anchor(lab.nx, 1, lab.width, lab.cw, lab.dpr),
              Anchor(lab.ny, -1, lab.height, lab.ch, lab.dpr)>>]

\* this.renderer.render(this.scene, this.camera) after positionCamera(): the
\* frame shows the camera at its current azimuth, altitude and zoom
render(w) == [w EXCEPT !.rendered = <<w.azimuth, w.altitude, w.zoom>>, !.fx.draws = @ + 1]

\* this.renderer.render(this.scene, this.camera) without positionCamera(): the
\* frame shows the camera where it was positioned last, at its current zoom
renderUnpositioned(w) == [w EXCEPT !.rendered[3] = w.zoom, !.fx.draws = @ + 1]

\* draw(): positionCamera, positionCoordinates, render
draw(w, lab) == render(positionCoordinates(w, lab))

-----------------------------------------------------------------------------
(* Camera *)

clamp(x, lo, hi) == IF x < lo THEN lo ELSE IF x > hi THEN hi ELSE x

\* rotateCameraXY(delta): angle = 0.006 * delta
rotateCameraXY(w, delta) == [w EXCEPT !.azimuth = @ + 6000 * delta]

\* the drift frame's rotateCameraXY(0.25 * easing.dEase(t)), d = dEase(t)
rotateCameraDrift(w, d) == [w EXCEPT !.azimuth = @ + 1500 * d]

rotateCameraZUnclamped(w, delta) ==
    [w EXCEPT !.altitude = @ + AltitudePerDelta * delta]

\* rotateCameraZ(delta): angle = 0.005 * delta, then the clamp
rotateCameraZ(w, delta) ==
    [w EXCEPT !.altitude = clamp(@ + AltitudePerDelta * delta, -HALF_PI, HALF_PI)]

\* rotateCameraZ(delta) of the earlier revision: angle = 0.0008 * delta
rotateCameraZ0(w, delta) ==
    [w EXCEPT !.altitude = clamp(@ + AltitudePerDelta0 * delta, -HALF_PI, HALF_PI)]

\* zoom(delta): the factor, in thousandths
zoomFactor(delta) == IF delta > 0 THEN 1100 ELSE 900

\* camera.zoom *= factor, rounded to the nearest representable value
Scale(z, factor) == Round(z * factor, Milli)

zoomByAdding(w, delta) == [w EXCEPT !.zoom = @ + zoomFactor(delta) - Milli]

\* zoom(delta)
zoomBy(w, delta) == [w EXCEPT !.zoom = Scale(@, zoomFactor(delta))]

-----------------------------------------------------------------------------
(* Auto-Fit *)

Cell(i, j) == <<i, j>>

NoCell == <<-1, -1>>

Probe(base, at1, p1, at2, p2) ==
    [base |-> base, at1 |-> at1, p1 |-> p1, at2 |-> at2, p2 |-> p2]

\* a surface well inside the view, one framed closely, one partly out of view
Loose == Probe(<<0, 0>>, NoCell, <<0, 0>>, NoCell, <<0, 0>>)

Framed == Probe(<<0, 0>>, Cell(5, 5), <<920, 0>>, NoCell, <<0, 0>>)

Outside == Probe(<<0, 0>>, Cell(5, 5), <<1200, 0>>, NoCell, <<0, 0>>)

Grids == {Loose, Framed, Outside}

\* this.surface.patch(u, v).clone().project(this.camera) at u = i/10, v = j/10:
\* the probe g gives every sample the point g.base, but for the two cells
\* g.at1 and g.at2, which project to g.p1 and g.p2 (<<x, y>> in thousandths)
Project(g, i, j) ==
    IF <<i, j>> = g.at1 THEN g.p1 ELSE IF <<i, j>> = g.at2 THEN g.p2 ELSE g.base

isBadAbove(x) == x > virtualMaxUpper

\* function isBad(x)
isBad(x) == x < virtualMinLower \/ x > virtualMaxUpper

inMinRange(x) == x > virtualMinLower /\ x < virtualMinUpper

inMaxRange(x) == x > virtualMaxLower /\ x < virtualMaxUpper

\* let inView = true, maxX = -Infinity, ... before the loops
ScanStart ==
    [inView |-> TRUE, maxX |-> -Infinity, maxY |-> -Infinity,
     minX |-> Infinity, minY |-> Infinity, probes |-> 0]

Max(a, b) == IF a > b THEN a ELSE b

Min(a, b) == IF a < b THEN a ELSE b

SetMax(S) == CHOOSE x \in S : \A y \in S : y <= x

SetMin(S) == CHOOSE x \in S : \A y \in S : x <= y

\* the inner loop over v on scan line i: the samples up to the first bad one
\* are projected, the bad one breaks the loop, those before it are tracked
ScanLine(g, i, acc) ==
    LET bad == {j \in 0..ProbeSteps : isBad(Project(g, i, j)[1]) \/ isBad(Project(g, i, j)[2])}
        stop == IF bad = {} THEN ProbeSteps + 1 ELSE SetMin(bad)
        xs == {Project(g, i, j)[1] : j \in 0..(stop - 1)}
        ys == {Project(g, i, j)[2] : j \in 0..(stop - 1)}
    IN  [inView |-> acc.inView /\ bad = {},
         maxX |-> SetMax(xs \cup {acc.maxX}), minX |-> SetMin(xs \cup {acc.minX}),
         maxY |-> SetMax(ys \cup {acc.maxY}), minY |-> SetMin(ys \cup {acc.minY}),
         probes |-> acc.probes + Min(stop, ProbeSteps) + 1]

\* the outer loop over u: ten additions of 0.1 give 0.9999999999999999 <= 1,
\* so the scan lines are i = 0 .. 10; every line is scanned, whatever the
\* lines before it found, and adds to the running extrema and to inView
ScanFrom(g, i, acc) ==
    LET line == [k \in i..ProbeSteps |-> ScanLine(g, k, ScanStart)]
        all == {line[k] : k \in i..ProbeSteps} \cup {acc}
    IN  [inView |-> \A r \in all : r.inView,
         maxX |-> SetMax({r.maxX : r \in all}), minX |-> SetMin({r.minX : r \in all}),
         maxY |-> SetMax({r.maxY : r \in all}), minY |-> SetMin({r.minY : r \in all}),
         probes |-> acc.probes +
                    Cardinality({<<k, n>> \in (i..ProbeSteps) \X (1..(ProbeSteps + 1)) :
                                    n <= line[k].probes})]

Scan(g) == ScanFrom(g, 0, ScanStart)

\* the scans of the three surfaces of the interaction specifications, once
ScanOfGrids == [g \in Grids |-> Scan(g)]

Scanned(g) == IF g \in Grids THEN ScanOfGrids[g] ELSE Scan(g)

closeFitNever(sc) == FALSE

\* inMinRange(minX) || inMaxRange(maxX) || inMinRange(minY) || inMaxRange(maxY)
closeFit(sc) ==
    inMinRange(sc.minX) \/ inMaxRange(sc.maxX) \/ inMinRange(sc.minY) \/ inMaxRange(sc.maxY)

fitFactorFixed(inView, speed) == IF inView THEN Milli + 100 ELSE Milli - 100

fitFactorInward(inView, speed) == Milli + speed

\* factor = 1 + 0.1 * speed when in view, 1 - 0.1 * speed otherwise, in thousandths
fitFactor(inView, speed) == IF inView THEN Milli + speed ELSE Milli - speed

\* zoomToFit(speed) on the probe g
zoomToFit(w, speed, g) ==
    LET sc == Scanned(g)
        w1 == [w EXCEPT !.fx.probes = @ + sc.probes]
    IN  IF sc.inView /\ closeFit(sc) THEN w1
        ELSE [w1 EXCEPT !.zoom = Scale(@, fitFactor(sc.inView, speed)),
                        !.frames = Append(@, speed)]

-----------------------------------------------------------------------------
(* Control points *)

\* toggle(delta), behind the wheel handler "Select Control Point"
toggle(w, delta, lab) ==
    IF 10 * Abs(delta) < 18 THEN w
    ELSE draw(Cmd(w, "setActiveControlPointIndex"), lab)

\* updateControlPoint(axis, delta)
updateControlPoint(w, delta, lab) ==
    IF ~HasActiveControlPoint(w) THEN w
    ELSE draw(positionCoordinates(Cmd(Cmd(w, "setActiveControlPoint"), "update"), lab), lab)

\* _.throttle(this.toggle.bind(this), 250), called with delta: the first call
\* of a window runs toggle at once, a later one holds its argument back for
\* the end of the window
throttledToggle(w, delta, lab) ==
    IF ~w.throttle.open
    THEN [toggle(w, delta, lab) EXCEPT !.throttle = [open |-> TRUE, args |-> <<>>]]
    ELSE [w EXCEPT !.throttle.args = <<delta>>]

\* the end of the throttle's window: toggle runs with the argument held back,
\* which opens the next window, or the window closes
throttleTimer(w, lab) ==
    IF w.throttle.args = <<>>
    THEN [w EXCEPT !.throttle.open = FALSE]
    ELSE [toggle(w, w.throttle.args[1], lab) EXCEPT
              !.throttle = [open |-> TRUE, args |-> <<>>]]

\* this.actions[name](delta)
Handle(w, name, delta, lab) ==
    LET w1 == [w EXCEPT !.fx.calls = Append(@, <<name, delta>>)]
    IN  CASE name = "Select Control Point" -> throttledToggle(w1, delta, lab)
          [] name = "XY Camera Rotation" -> rotateCameraXY(w1, delta)
          [] name = "YZ Camera Rotation" -> rotateCameraZ(w1, delta)
          [] name = "Zoom" -> zoomBy(w1, delta)
          [] OTHER -> updateControlPoint(w1, delta, lab)

-----------------------------------------------------------------------------
(* Interaction *)

updateLastInteractionTimeOnly(w) == [w EXCEPT !.since = 0]

\* updateLastInteraction()
updateLastInteraction(w) == [w EXCEPT !.since = 0, !.idles = 0]

onClickNoStop(w) == StartTween(updateLastInteraction(w), "randomize")

\* onClick()
onClick(w) == StartTween(SurfaceStop(updateLastInteraction(w)), "randomize")

\* restoreSurface()
restoreSurface(w) == StartTween(w, "restore")

\* tutorial(stage) when tutorialManager.steps is n
tutorialStageOf(w, stage, n) ==
    IF n > 0 /\ stage >= n
    THEN [w EXCEPT !.lastTutorial = -1, !.tutorial = -1]
    ELSE [w EXCEPT !.lastTutorial = w.tutorial, !.tutorial = stage]

tutorialStageNoExit(w, stage) == tutorialStageOf(w, stage, 0)

\* tutorial(stage)
tutorialStage(w, stage) == tutorialStageOf(w, stage, steps)

isMappedAlways(code) == TRUE

\* code in this.keys
isMapped(code) == code \in DOMAIN keys

\* this.keys[code]
lookup(code) == IF code \in DOMAIN keys THEN keys[code] ELSE UNDEFINED

resolveActionNoToggle(a, selected) == a

\* if (action === this.state.action && action !== "TUTORIAL") action = null
resolveAction(a, selected) == IF a = selected /\ a # "TUTORIAL" THEN NULL ELSE a

nextStepNoResume(w) == w.tutorial + 1

\* the step the TUTORIAL key asks for
nextStep(w) ==
    (IF w.lastTutorial >= 0 /\ w.tutorial = -1 THEN w.lastTutorial ELSE w.tutorial) + 1

hideControlsKeepLabel(w) == DeactivateControls(w)

\* setState({ coordinates: false }); this.surface.deactivateControls()
hideControls(w) == DeactivateControls([w EXCEPT !.coordinates = FALSE])

\* the keys that act on key-down, after the action was stored
dispatch(w, a, env) ==
    CASE a = "MORPH" -> onClick(w)
      [] a = "ZOOMTOFIT" -> zoomToFit(w, 100, env.grid)
      [] a = "Select Control Point" ->
            IF ~w.controls
            THEN positionCoordinates(
                     [ActivateControls(w) EXCEPT !.coordinates = TRUE], env.lab)
            ELSE Cmd(Cmd(w, "setAxis"), "update")
      [] a \in AxisActions ->
            LET w1 == Cmd(SurfaceStop(w), "setAxis")
                w2 == IF ~w1.controls
                      THEN positionCoordinates(
                               [ActivateControls(w1) EXCEPT !.coordinates = TRUE], env.lab)
                      ELSE w1
            IN  Cmd(w2, "update")
      [] a = "RESTORE" -> restoreSurface(SurfaceStop(w))
      [] a = "DISPLAY" -> Cmd(w, "nextDisplay")
      [] OTHER -> hideControls(w)

blockedNever(w, a) == FALSE

\* if (this.preventKeysExceptTutorial && action !== "TUTORIAL") return
blocked(w, a) == w.prevent /\ a # "TUTORIAL"

rememberLatest(w) == [w EXCEPT !.lastTutorial = w.tutorial, !.tutorial = -1]

\* setState({ lastTutorial: tutorial >= 0 ? tutorial : lastTutorial, tutorial: -1 })
remember(w) ==
    [w EXCEPT !.lastTutorial = IF w.tutorial >= 0 THEN w.tutorial ELSE @,
              !.tutorial = -1]

isSelectableAlways(a) == TRUE

\* _.isFunction(this.actions[action]) || action === null
isSelectable(a) == a \in actions \/ a = NULL

\* onKeyDown after the key was found in this.keys
keyAction(w, a0, env) ==
    LET a == resolveAction(a0, w.action)
    IN  IF blocked(w, a) THEN w
        ELSE IF a = "TUTORIAL" THEN tutorialStage(w, nextStep(w))
        ELSE LET w1 == IF a = "EXIT" THEN Reload(w) ELSE w
                 w2 == remember(w1)
                 w3 == IF isSelectable(a) THEN [w2 EXCEPT !.action = a] ELSE w2
             IN  draw(dispatch(w3, a, env), env.lab)

\* onKeyDown(e), e.keyCode = code
onKeyDown(w, code, env) ==
    LET w1 == updateLastInteraction(w)
    IN  IF ~isMapped(code) THEN w1 ELSE keyAction(w1, lookup(code), env)

onWheelSameSign(w, deltaY, env) ==
    LET w1 == updateLastInteraction(w)
    IN  IF w1.action \notin actions THEN w1
        ELSE draw(Handle(w1, w1.action, deltaY, env.lab), env.lab)

\* onWheel(e), e.deltaY = deltaY
onWheel(w, deltaY, env) ==
    LET w1 == updateLastInteraction(w)
    IN  IF w1.action \notin actions THEN w1
        ELSE draw(Handle(w1, w1.action, -deltaY, env.lab), env.lab)

\* onResize(), the debounced handler: render, positionCoordinates
onResize(w, env) ==
    LET w1 == updateLastInteraction(w)
    IN  positionCoordinates(renderUnpositioned(w1), env.lab)

-----------------------------------------------------------------------------
(* Idle Monitor *)

isIdleAnyStage(w) == w.since > timeout

\* t - this.state.lastInteraction > timeout && this.state.tutorial < 0
isIdle(w) == w.since > timeout /\ w.tutorial < 0

tooManyIdlesEarly(n) == n >= IdleThreshold

\* this.state.idles > 9
tooManyIdles(n) == n > IdleThreshold

rescheduleTwice(cs) == Append(Append(cs, timeout), timeout)

\* window.setTimeout(this.checkLastInteraction, timeout)
reschedule(cs) == Append(cs, timeout)

\* checkLastInteraction(), run by the pending check k
checkLastInteraction(w, k) ==
    LET rest == SubSeq(w.checks, 1, k - 1) \o SubSeq(w.checks, k + 1, Len(w.checks))
        w0 == [w EXCEPT !.checks = rest]
        w1 == IF ~isIdle(w0) THEN w0
              ELSE LET r == IF tooManyIdles(w0.idles) THEN Reload(w0) ELSE w0
                   IN  StartTween(SurfaceStop([r EXCEPT !.idles = @ + 1]), "drift")
    IN  [w1 EXCEPT !.checks = reschedule(@)]

-----------------------------------------------------------------------------
(* Inputs of the environment *)

Speeds == {100, 30, 10, 1}

Label(nx, ny, width, height, cw, ch, dpr) ==
    [nx |-> nx, ny |-> ny, width |-> width, height |-> height,
     cw |-> cw, ch |-> ch, dpr |-> dpr]

\* the label the interaction specifications place: a point right of and above
\* the centre of an 800 x 600 canvas
SomeLabel == Label(500, 500, 120, 40, 800, 600, 1)

Env(g) == [grid |-> g, lab |-> SomeLabel]

NoInput == [kind |-> "none"]

-----------------------------------------------------------------------------
(* Events *)

\* the caps of the model on the quantities that grow without bound
Bounded(w) ==
    /\ Len(w.frames) <= MaxPendingFrames
    /\ w.zoom <= ZoomMax
    /\ Abs(w.azimuth - Mounted.azimuth) <= AzimuthSpan

Commit(r) ==
    LET w == Finish(r)
    IN  /\ Bounded(w)
        /\ action' = w.action
        /\ coordinates' = w.coordinates
        /\ anchor' = w.anchor
        /\ since' = w.since
        /\ idles' = w.idles
        /\ tutorial' = w.tutorial
        /\ lastTutorial' = w.lastTutorial
        /\ prevent' = w.prevent
        /\ azimuth' = w.azimuth
        /\ altitude' = w.altitude
        /\ zoom' = w.zoom
        /\ controls' = w.controls
        /\ tweens' = w.tweens
        /\ checks' = w.checks
        /\ frames' = w.frames
        /\ throttle' = w.throttle
        /\ rendered' = w.rendered
        /\ fx' = w.fx

Start(w) ==
    /\ action = w.action
    /\ coordinates = w.coordinates
    /\ anchor = w.anchor
    /\ since = w.since
    /\ idles = w.idles
    /\ tutorial = w.tutorial
    /\ lastTutorial = w.lastTutorial
    /\ prevent = w.prevent
    /\ azimuth = w.azimuth
    /\ altitude = w.altitude
    /\ zoom = w.zoom
    /\ controls = w.controls
    /\ tweens = w.tweens
    /\ checks = w.checks
    /\ frames = w.frames
    /\ throttle = w.throttle
    /\ rendered = w.rendered
    /\ fx = w.fx

Init == Start(Mounted) /\ input = NoInput

KeyDownOf(codes, grids) ==
    \E code \in codes, g \in grids :
        /\ Commit(onKeyDown(Begin(World, "onKeyDown", code), code, Env(g)))
        /\ UNCHANGED input

WheelOf(deltas) ==
    \E deltaY \in deltas :
        /\ Commit(onWheel(Begin(World, "onWheel", deltaY), deltaY, Env(Framed)))
        /\ UNCHANGED input

Click ==
    /\ Commit(onClick(Begin(World, "onClick", 0)))
    /\ UNCHANGED input

Resize ==
    /\ Commit(onResize(Begin(World, "onResize", 0), Env(Framed)))
    /\ UNCHANGED input

\* the tutorial collaborator sets or clears this.preventKeysExceptTutorial
SetPrevent ==
    /\ Commit([Begin(World, "setPrevent", 0) EXCEPT !.prevent = ~prevent])
    /\ UNCHANGED input

\* the wall clock advances by one quantum
Advance ==
    /\ since <= timeout \/ \E k \in DOMAIN checks : checks[k] > 0
    /\ Commit([Begin(World, "clock", 0) EXCEPT
                  !.since = Min(@ + 1, timeout + 1),
                  !.checks = [k \in DOMAIN @ |-> Max(@[k] - 1, 0)]])
    /\ UNCHANGED input

\* a pending check of the Idle Monitor comes due
IdleTick ==
    \E k \in DOMAIN checks :
        /\ checks[k] = 0
        /\ Commit(checkLastInteraction(Begin(World, "checkLastInteraction", 0), k))
        /\ UNCHANGED input

\* the frame callback of tween k: draw, and for the drift a rotation first
tweenFrame(w, k, d, lab) ==
    IF w.tweens[k] = "drift" THEN draw(rotateCameraDrift(w, d), lab) ELSE draw(w, lab)

\* the speed the completion callback of a tween passes to zoomToFit
tweenSpeed(kind) == CASE kind = "randomize" -> 10 [] kind = "restore" -> 30 [] OTHER -> 1

\* the completion callback of tween k
tweenComplete(w, k, g) ==
    LET rest == SubSeq(w.tweens, 1, k - 1) \o SubSeq(w.tweens, k + 1, Len(w.tweens))
    IN  zoomToFit([w EXCEPT !.tweens = rest], tweenSpeed(w.tweens[k]), g)

TweenFrameOf(ds) ==
    \E k \in DOMAIN tweens, d \in ds :
        LET r == tweenFrame(Begin(World, "tweenFrame", k), k, d, SomeLabel)
        IN  /\ Abs(r.azimuth - Mounted.azimuth) <= DriftSpan
            /\ Commit(r)
            /\ UNCHANGED input

TweenCompleteOf(grids) ==
    \E k \in DOMAIN tweens, g \in grids :
        /\ Commit(tweenComplete(Begin(World, "tweenComplete", k), k, g))
        /\ UNCHANGED input

ThrottleTimer ==
    /\ throttle.open
    /\ Commit(throttleTimer(Begin(World, "throttleTimer", 0), SomeLabel))
    /\ UNCHANGED input

fitFrameWithoutDraw(w, env) ==
    zoomToFit([w EXCEPT !.frames = Tail(@)], Head(w.frames), env.grid)

\* window.requestAnimationFrame(() => { this.zoomToFit(speed); this.draw() })
fitFrame(w, env) ==
    draw(zoomToFit([w EXCEPT !.frames = Tail(@)], Head(w.frames), env.grid), env.lab)

FitFrameOf(grids) ==
    \E g \in grids :
        /\ frames # <<>>
        /\ Commit(fitFrame(Begin(World, "fitFrame", Head(frames)), Env(g)))
        /\ UNCHANGED input

-----------------------------------------------------------------------------
(* The keyboard: every key, clicks, resizes, the tutorial's guard and the    *)
(* tween callbacks, on a surface that Auto-Fit finds framed                  *)

KeyCodes == DOMAIN keys \cup {13}

KeyDown == KeyDownOf(KeyCodes, {Framed})

TweenFrame == TweenFrameOf({0})

TweenComplete == TweenCompleteOf({Framed})

Next ==
    \/ KeyDown
    \/ Click
    \/ Resize
    \/ SetPrevent
    \/ TweenFrame
    \/ TweenComplete

Spec == Init /\ [][Next]_vars

-----------------------------------------------------------------------------
(* The Idle Monitor: the wall clock and the pending checks, with the keys    *)
(* that start tweens, advance the tutorial or reload, an unmapped key, the   *)
(* wheel, clicks and resizes, and the tween callbacks with a drifting camera *)

IdleKeyDown == KeyDownOf({65, 66, 68, 72, 13}, {Framed})

IdleWheel == WheelOf({400})

IdleTweenFrame == TweenFrameOf({0, 1})

NextIdle ==
    \/ Advance
    \/ IdleTick
    \/ IdleKeyDown
    \/ IdleWheel
    \/ Click
    \/ Resize
    \/ IdleTweenFrame
    \/ TweenComplete

SpecIdle == Init /\ [][NextIdle]_vars

-----------------------------------------------------------------------------
(* The orbit: the two rotation keys and the wheel, with clicks, resizes and  *)
(* the tween callbacks                                                       *)

RotateKeyDown == KeyDownOf({85, 86, 13}, {Framed})

RotateWheel == WheelOf({-400, -100, 100, 400})

NextRotate ==
    \/ RotateKeyDown
    \/ RotateWheel
    \/ Click
    \/ Resize
    \/ TweenFrame
    \/ TweenComplete

SpecRotate == Init /\ [][NextRotate]_vars

-----------------------------------------------------------------------------
(* The zoom: the Zoom key and the wheel, the ZOOMTOFIT key and clicks, with  *)
(* the tween completions and the Auto-Fit frames on a surface that is found  *)
(* loosely framed, closely framed or partly out of view                      *)

ZoomKeyDown == KeyDownOf({87, 88}, Grids)

ZoomWheel == WheelOf({-400, 400})

ZoomTweenComplete == TweenCompleteOf(Grids)

FitFrame == FitFrameOf(Grids)

NextZoom ==
    \/ ZoomKeyDown
    \/ ZoomWheel
    \/ Click
    \/ ZoomTweenComplete
    \/ FitFrame

SpecZoom == Init /\ [][NextZoom]_vars

-----------------------------------------------------------------------------
(* The wheel: the keys that select each kind of handler, a key without one,  *)
(* an unmapped key, the wheel turned upwards, and the throttle of the        *)
(* control-point toggle                                                      *)

WheelKeyDown == KeyDownOf({73, 74, 85, 86, 87, 69, 13}, {Framed})

WheelWheel == WheelOf({-400})

NextWheel ==
    \/ WheelKeyDown
    \/ WheelWheel
    \/ ThrottleTimer
    \/ Resize

SpecWheel == Init /\ [][NextWheel]_vars

-----------------------------------------------------------------------------
(* The point-editing controls: a key of every kind (select, move along an    *)
(* axis, rotate, each discrete key, an unmapped key), the wheel, clicks, the *)
(* tutorial's guard, the wall clock with the Idle Monitor, the throttle and  *)
(* the tween callbacks                                                       *)

ControlsKeyDown == KeyDownOf({73, 74, 85, 65, 66, 69, 68, 72, 88, 13}, {Framed})

ControlsWheel == WheelOf({-400})

NextControls ==
    \/ ControlsKeyDown
    \/ ControlsWheel
    \/ Click
    \/ SetPrevent
    \/ Advance
    \/ IdleTick
    \/ ThrottleTimer
    \/ TweenFrame
    \/ TweenComplete

SpecControls == Init /\ [][NextControls]_vars

-----------------------------------------------------------------------------
(* The rendered frame: a rotation key and the wheel, the ZOOMTOFIT key,      *)
(* clicks and resizes, the wall clock with the Idle Monitor and its drift,   *)
(* and the tween completions and Auto-Fit frames on a surface that is found  *)
(* closely or loosely framed, and closely framed at the end of a drift       *)

RedrawGrids == {Framed, Loose}

RedrawKeyDown == KeyDownOf({85, 88}, RedrawGrids)

RedrawWheel == WheelOf({-400})

RedrawTweenFrame == TweenFrameOf({1})

RedrawTweenComplete ==
    \E k \in DOMAIN tweens :
        \E g \in (IF tweens[k] = "drift" THEN {Framed} ELSE RedrawGrids) :
            /\ Commit(tweenComplete(Begin(World, "tweenComplete", k), k, g))
            /\ UNCHANGED input

RedrawFitFrame == FitFrameOf(RedrawGrids)

NextRedraw ==
    \/ RedrawKeyDown
    \/ RedrawWheel
    \/ Click
    \/ Resize
    \/ Advance
    \/ IdleTick
    \/ RedrawTweenFrame
    \/ RedrawTweenComplete
    \/ RedrawFitFrame

SpecRedraw == Init /\ [][NextRedraw]_vars

-----------------------------------------------------------------------------
(* Auto-Fit alone: one zoomToFit(speed) on a freshly mounted view, for every *)
(* speed the callers pass and a family of probes                             *)

FitValues == {-1200, -950, -920, -900, 0, 900, 920, 950, 1200}

FitPoints == {<<v, 0>> : v \in FitValues} \cup {<<0, v>> : v \in FitValues}

FitInputs ==
    {[kind |-> "fit", speed |-> s, grid |-> Probe(<<0, 0>>, Cell(5, 5), p1, c2, p2)] :
        s \in Speeds, p1 \in FitPoints, p2 \in FitPoints,
        c2 \in {NoCell, Cell(5, 3), Cell(5, 7), Cell(2, 2)}}

InitFit == Start(Mounted) /\ input \in FitInputs

ApplyFit ==
    /\ input.kind = "fit"
    /\ fx.op = "mount"
    /\ Commit(zoomToFit(Begin(World, "zoomToFit", input.speed), input.speed, input.grid))
    /\ UNCHANGED input

NextFit == ApplyFit

SpecFit == InitFit /\ [][NextFit]_vars

-----------------------------------------------------------------------------
(* The Auto-Fit loop alone: zoomToFit(speed) and then its frame callbacks,   *)
(* with no other input, on a static surface whose projection is proportional *)
(* to the zoom: at zoom 1 its largest x is the extent, and its smallest y is *)
(* minus half of it.  The extents keep the zoom of the loop where a step of  *)
(* the slowest speed still moves a zoom held in thousandths, and they share  *)
(* no factor with the band edges, so that no projection lies on an edge.     *)

Extents == {859, 881, 899, 923, 949, 1001, 1301, 1849}

\* n / d in whole thousandths, on the side of each band edge that n / d is on
Quantize(n, d) ==
    LET r == Round(n, d)
        edges == {virtualMaxLower, virtualMaxUpper}
    IN  IF r \in edges /\ n > r * d THEN r + 1
        ELSE IF r \in edges /\ n < r * d THEN r - 1
        ELSE r

\* the projections of the surface of extent e under zoom z
SurfaceAt(e, z) ==
    Probe(<<0, 0>>, Cell(5, 5), <<Quantize(e * z, Milli), 0>>,
          Cell(2, 2), <<0, -Round(e * z, 2 * Milli)>>)

\* calls counts the invocations of zoomToFit the loop has made
LoopInputs ==
    {[kind |-> "loop", speed |-> sp, extent |-> e, calls |-> 0] :
        sp \in Speeds, e \in Extents}

InitLoop == Start(Mounted) /\ input \in LoopInputs

StartLoop ==
    /\ input.kind = "loop"
    /\ fx.op = "mount"
    /\ Commit(zoomToFit(Begin(World, "zoomToFit", input.speed), input.speed,
                        SurfaceAt(input.extent, zoom)))
    /\ input' = [input EXCEPT !.calls = @ + 1]

LoopFrame ==
    /\ input.kind = "loop"
    /\ frames # <<>>
    /\ Commit(fitFrame(Begin(World, "fitFrame", Head(frames)),
                       [grid |-> SurfaceAt(input.extent, zoom), lab |-> SomeLabel]))
    /\ input' = [input EXCEPT !.calls = @ + 1]

NextLoop == StartLoop \/ LoopFrame

SpecLoop == InitLoop /\ [][NextLoop]_vars

-----------------------------------------------------------------------------
(* Label placement alone: one positionCoordinates() while a control point is *)
(* active, for a family of points, label sizes, canvases and pixel ratios    *)

LabelInputs ==
    {[kind |-> "label", lab |-> Label(nx, ny, 15 * lw, 10 * lh, 40 * cw, 30 * ch, dpr)] :
        nx \in {-1000, -400, 0, 400, 1000}, ny \in {-600, 0, 600},
        lw \in 0..MaxLabel, lh \in 0..MaxLabel,
        cw \in 1..MaxCanvas, ch \in 1..MaxCanvas, dpr \in {1, 2}}

\* the view after the key "Select Control Point": a control point is active
Selecting == Finish(onKeyDown(Begin(Mounted, "onKeyDown", 73), 73, Env(Framed)))

InitLabel == Start(Selecting) /\ input \in LabelInputs

Place ==
    /\ input.kind = "label"
    /\ fx.op # "positionCoordinates"
    /\ Commit(positionCoordinates(Begin(World, "positionCoordinates", 0), input.lab))
    /\ UNCHANGED input

NextLabel == Place

SpecLabel == InitLabel /\ [][NextLabel]_vars

-----------------------------------------------------------------------------
(* What a callback would do in the current state *)

\* the state onKeyDown leaves when the key code is pressed in state w
Press(w, code) == Finish(onKeyDown(Begin(w, "onKeyDown", code), code, Env(Framed)))

\* the state the pending check k of the Idle Monitor leaves when it runs now
Tick(k) == checkLastInteraction(Begin(World, "checkLastInteraction", 0), k)

HandlerKeys == {c \in DOMAIN keys : keys[c] \in actions}

DiscreteKeys == {c \in DOMAIN keys : keys[c] \in {"DISPLAY", "RESTORE", "MORPH", "ZOOMTOFIT"}}

TutorialKey == CHOOSE c \in DOMAIN keys : keys[c] = "TUTORIAL"

ExitKey == CHOOSE c \in DOMAIN keys : keys[c] = "EXIT"

\* the fields of w that are neither the interaction clock nor the effects log
Rest(w) ==
    <<w.action, w.coordinates, w.anchor, w.tutorial, w.lastTutorial, w.prevent,
      w.azimuth, w.altitude, w.zoom, w.controls, w.tweens, w.checks, w.frames,
      w.throttle, w.rendered>>

-----------------------------------------------------------------------------
(* C1 *)

\* C1 as stated: with the guard off, two consecutive presses of any mapped key
\* but the tutorial key leave no action selected
C1_AsStated ==
    \A c \in DOMAIN keys \ {TutorialKey} :
        ~prevent => Press(Press(World, c), c).action = NULL

\* C1, amended: with the guard off, two consecutive presses of a key whose
\* action has a wheel handler leave no action selected when that action was not
\* the selected one before (the first press selects it, the second toggles it
\* off), and leave it selected when it was; two presses of DISPLAY, RESTORE,
\* MORPH or ZOOMTOFIT leave the selected action what it was; two presses of EXIT
\* leave none, by the reload; the tutorial key never changes the selected action
C1_Toggle ==
    /\ \A c \in HandlerKeys :
          ~prevent =>
              /\ Press(World, c).action = (IF action = keys[c] THEN NULL ELSE keys[c])
              /\ Press(Press(World, c), c).action =
                     (IF action = keys[c] THEN keys[c] ELSE NULL)
    /\ \A c \in DiscreteKeys :
          ~prevent => Press(Press(World, c), c).action = action
    /\ ~prevent => Press(Press(World, ExitKey), ExitKey).action = NULL
    /\ Press(World, TutorialKey).action = action
    /\ Press(Press(World, TutorialKey), TutorialKey).action = action

\* a key with a wheel handler was pressed with the guard off and toggled its
\* action off, while the coordinates were showing before
C1_Witness ==
    /\ fx.op = "onKeyDown"
    /\ fx.arg \in HandlerKeys
    /\ ~prevent
    /\ action = NULL
    /\ "deactivateControls" \in {fx.cmds[i] : i \in DOMAIN fx.cmds}

-----------------------------------------------------------------------------
(* C2 *)

DueChecks == {k \in DOMAIN checks : checks[k] = 0}

C2_WitnessNine ==
    /\ DueChecks # {}
    /\ isIdle(World)
    /\ idles = IdleThreshold

-----------------------------------------------------------------------------
(* C3 *)

\* C3: in every reachable state exactly one check of the Idle Monitor is pending
C3_OnePendingCheck == Len(checks) = 1

\* a tick that started a drift has run and left its successor pending
C3_Witness ==
    /\ fx.op = "checkLastInteraction"
    /\ idles >= 2
    /\ tweens = <<"drift">>
    /\ checks = <<timeout>>

-----------------------------------------------------------------------------
(* C4 *)

\* C4: in every reachable state at most one tween of the surface is running
C4_OneTween == Len(tweens) <= 1

\* an entry point has halted a running tween and started its own
C4_Witness ==
    /\ fx.halted = 1
    /\ Len(tweens) = 1
    /\ fx.op \in {"onClick", "onKeyDown", "checkLastInteraction"}

-----------------------------------------------------------------------------
(* C5 *)

RotateDeltas == {-400, -100, -1, 0, 1, 100, 400}

\* the state onWheel leaves when the wheel moves by deltaY now
Turn(deltaY) == Finish(onWheel(Begin(World, "onWheel", deltaY), deltaY, Env(Framed)))

\* the altitude a rotation by the raw amount must leave
Clamped(raw) == IF raw > HALF_PI THEN HALF_PI ELSE IF raw < -HALF_PI THEN -HALF_PI ELSE raw

\* C5: in every reachable state altitude lies in [-pi/2, pi/2], and a vertical
\* rotation, by the wheel or called directly, in this or in the earlier
\* revision, leaves exactly pi/2 (or -pi/2) when the unclamped result would be
\* above pi/2 (or below -pi/2), and the unclamped result otherwise
C5_AltitudeClamped ==
    /\ altitude >= -HALF_PI /\ altitude <= HALF_PI
    /\ \A d \in RotateDeltas :
          /\ action = "YZ Camera Rotation" =>
                 Turn(d).altitude = Clamped(altitude + AltitudePerDelta * (-d))
          /\ rotateCameraZ(World, d).altitude = Clamped(altitude + AltitudePerDelta * d)
          /\ rotateCameraZ0(World, d).altitude = Clamped(altitude + AltitudePerDelta0 * d)

\* the wheel has turned the camera up from below pi/2 - 0.5 by more than was
\* left, and the altitude is exactly pi/2
C5_Witness ==
    /\ fx.op = "onWheel"
    /\ fx.calls = <<<<"YZ Camera Rotation", 400>>>>
    /\ altitude = HALF_PI

-----------------------------------------------------------------------------
(* C6 *)

\* C6: zoom is positive in every reachable state, and stays positive under
\* zoom(delta) for either sign of delta and under an Auto-Fit step with every
\* speed the callers pass, whatever the scan of the surface finds
C6_ZoomPositive ==
    /\ zoom > 0
    /\ \A d \in {-400, 400} : zoomBy(World, d).zoom > 0
    /\ \A sp \in Speeds, g \in Grids : zoomToFit(World, sp, g).zoom > 0

\* the wheel has zoomed out to the smallest zoom the model represents below
\* which a factor of 0.9 no longer moves it
C6_Witness ==
    /\ fx.op = "onWheel"
    /\ fx.calls = <<<<"Zoom", -400>>>>
    /\ zoom < 10
    /\ Scale(zoom, zoomFactor(-400)) = zoom

-----------------------------------------------------------------------------
(* C7, C8 *)

Samples(g) == {Project(g, i, j) : i \in 0..ProbeSteps, j \in 0..ProbeSteps}

Coords(g) == {p[1] : p \in Samples(g)} \cup {p[2] : p \in Samples(g)}

\* every projection strictly inside the hard bounds
AllStrictlyInside(g) == \A c \in Coords(g) : c > virtualMinLower /\ c < virtualMaxUpper

\* every projection within the hard bounds
AllWithin(g) == \A c \in Coords(g) : c >= virtualMinLower /\ c <= virtualMaxUpper

InBand(c) ==
    \/ c > virtualMinLower /\ c < virtualMinUpper
    \/ c > virtualMaxLower /\ c < virtualMaxUpper

\* min x, max x, min y, max y of the 121 projections
Extrema(g) ==
    {SetMin({p[1] : p \in Samples(g)}), SetMax({p[1] : p \in Samples(g)}),
     SetMin({p[2] : p \in Samples(g)}), SetMax({p[2] : p \in Samples(g)})}

ExtremumInBand(g) == \E c \in Extrema(g) : InBand(c)

\* one zoomToFit(input.speed) has run on a freshly mounted view
FitDone == input.kind = "fit" /\ fx.op = "zoomToFit"

\* C7: when all 121 projections lie strictly inside the hard bounds and no
\* extremum lies in the close-fit band, one Auto-Fit invocation multiplies zoom
\* by exactly 1 + 0.1 * speed and schedules exactly one follow-up, with the
\* same speed
C7_ZoomIn ==
    (FitDone /\ AllStrictlyInside(input.grid) /\ ~ExtremumInBand(input.grid)) =>
        /\ zoom * Milli = Mounted.zoom * (Milli + input.speed)
        /\ frames = <<input.speed>>

\* an invocation with speed 0.3 zoomed in on a surface whose largest x is 0.9,
\* the edge of the band, after all 121 probes
C7_Witness ==
    /\ FitDone
    /\ AllStrictlyInside(input.grid) /\ ~ExtremumInBand(input.grid)
    /\ SetMax({p[1] : p \in Samples(input.grid)}) = virtualMaxLower
    /\ input.speed = 30
    /\ zoom = 1030
    /\ fx.probes = (ProbeSteps + 1) * (ProbeSteps + 1)

\* C8 as stated: with an extremum in the close-fit band, one Auto-Fit
\* invocation leaves zoom unchanged and schedules nothing
C8_AsStated ==
    (FitDone /\ ExtremumInBand(input.grid)) =>
        /\ zoom = Mounted.zoom
        /\ frames = <<>>

\* C8, amended: with an extremum in the close-fit band, one Auto-Fit invocation
\* leaves zoom unchanged and schedules nothing when every projection lies
\* within the hard bounds; when one lies outside them it multiplies zoom by
\* 1 - 0.1 * speed and schedules one follow-up with the same speed
C8_CloseFit ==
    (FitDone /\ ExtremumInBand(input.grid)) =>
        IF AllWithin(input.grid)
        THEN zoom = Mounted.zoom /\ frames = <<>>
        ELSE /\ zoom * Milli = Mounted.zoom * (Milli - input.speed)
             /\ frames = <<input.speed>>

\* an invocation found the largest x in the band and every projection within
\* the hard bounds, and stopped after all 121 probes
C8_Witness ==
    /\ FitDone
    /\ ExtremumInBand(input.grid) /\ AllWithin(input.grid)
    /\ zoom = Mounted.zoom
    /\ frames = <<>>
    /\ fx.probes = (ProbeSteps + 1) * (ProbeSteps + 1)

\* an invocation found the largest x in the band and a projection below the
\* view, and zoomed out
C8_WitnessOut ==
    /\ FitDone
    /\ ExtremumInBand(input.grid) /\ ~AllWithin(input.grid)
    /\ zoom < Mounted.zoom
    /\ frames # <<>>

-----------------------------------------------------------------------------
(* C9 *)

\* one positionCoordinates() has run on input.lab
Placed == input.kind = "label" /\ fx.op = "positionCoordinates"

\* twice the x of the anchor before the clamps
NaiveX == Naive(input.lab.nx, 1, input.lab.width, input.lab.cw, input.lab.dpr)

\* the label's right edge would be beyond the canvas: x + width / 2 > width of it
RightOverflow == NaiveX + input.lab.width > 2 * input.lab.cw

\* C9 as stated: when the right edge of the label at the unclamped anchor is
\* beyond the viewport width, the resolved x is viewportWidth - labelWidth / 2
C9_AsStated ==
    (Placed /\ RightOverflow) => anchor[1] = 2 * input.lab.cw - input.lab.width

\* C9, amended: when the right edge of the label at the unclamped anchor is
\* beyond the viewport width, the resolved x is viewportWidth - labelWidth / 2
\* if the label is no wider than the viewport, and labelWidth / 2 if it is wider
C9_RightClamp ==
    (Placed /\ RightOverflow) =>
        anchor[1] = (IF input.lab.width <= input.lab.cw
                     THEN 2 * input.lab.cw - input.lab.width
                     ELSE input.lab.width)

\* a label of odd width, narrower than the canvas, was placed for a point right
\* of the centre on a display of pixel ratio 2 and was clamped at the right
C9_Witness ==
    /\ Placed /\ RightOverflow
    /\ input.lab.width % 2 = 1
    /\ input.lab.width < input.lab.cw
    /\ input.lab.dpr = 2
    /\ anchor[1] = 2 * input.lab.cw - input.lab.width

-----------------------------------------------------------------------------
(* C19 *)

\* the label's box around the doubled anchor c2 lies within [0, extent]
BoxInside(c2, size, extent) == 0 <= c2 - size /\ c2 + size <= 2 * extent

\* C19 as stated: after a placement the label's box lies inside the viewport
\* on all four sides, whatever the point, the label and the viewport
C19_AsStated ==
    Placed =>
        /\ BoxInside(anchor[1], input.lab.width, input.lab.cw)
        /\ BoxInside(anchor[2], input.lab.height, input.lab.ch)

\* C19, amended: after a placement the label's box lies inside the viewport
\* horizontally when the label is no wider than the viewport, and vertically
\* when it is no taller; a wider label has its left edge at 0 and a taller one
\* its top edge at 0
C19_InsideViewport ==
    Placed =>
        /\ IF input.lab.width <= input.lab.cw
           THEN BoxInside(anchor[1], input.lab.width, input.lab.cw)
           ELSE anchor[1] = input.lab.width
        /\ IF input.lab.height <= input.lab.ch
           THEN BoxInside(anchor[2], input.lab.height, input.lab.ch)
           ELSE anchor[2] = input.lab.height

\* twice the y of the anchor before the clamps
NaiveY == Naive(input.lab.ny, -1, input.lab.height, input.lab.ch, input.lab.dpr)

\* a label that fits the viewport was placed for a point in the top right
\* corner, where the unclamped box would stick out on the right and at the top,
\* and both clamps brought it inside
C19_Witness ==
    /\ Placed
    /\ input.lab.width > 0 /\ input.lab.width <= input.lab.cw
    /\ input.lab.height > 0 /\ input.lab.height <= input.lab.ch
    /\ ~BoxInside(NaiveX, input.lab.width, input.lab.cw)
    /\ ~BoxInside(NaiveY, input.lab.height, input.lab.ch)
    /\ anchor = <<2 * input.lab.cw - input.lab.width, input.lab.height>>

-----------------------------------------------------------------------------
(* C10 *)

UnmappedCodes == {13}

\* C10 as stated: a key that is not in the table changes nothing, issues no
\* surface command and requests no redraw
C10_AsStated ==
    \A c \in UnmappedCodes :
        LET r == Press(World, c)
        IN  /\ Rest(r) = Rest(World)
            /\ r.since = since /\ r.idles = idles
            /\ r.fx.cmds = <<>> /\ r.fx.draws = 0 /\ ~r.fx.reload

\* C10, amended: a key that is not in the table marks an interaction (the time
\* since the last interaction and idles become 0) and does nothing else: no
\* other field of the view state, the camera, the surface or the schedulers
\* changes, no surface command is issued, nothing is redrawn or reloaded
C10_UnmappedKey ==
    \A c \in UnmappedCodes :
        LET r == Press(World, c)
        IN  /\ Rest(r) = Rest(World)
            /\ r.since = 0 /\ r.idles = 0
            /\ r.fx.cmds = <<>> /\ r.fx.draws = 0 /\ ~r.fx.reload
            /\ r.fx.calls = <<>> /\ r.fx.probes = 0

\* an unmapped key was pressed while a tween was running and a tutorial active
C10_Witness ==
    /\ fx.op = "onKeyDown"
    /\ fx.arg \in UnmappedCodes
    /\ tweens # <<>>
    /\ tutorial >= 0
    /\ since = 0

-----------------------------------------------------------------------------
(* C11 *)

\* the state at the end of onKeyDown, before a requested reload tears it down
Handled(w, code) == onKeyDown(Begin(w, "onKeyDown", code), code, Env(Framed))

\* the stage the tutorial key must lead to from the stages held in w
Advanced(w) ==
    LET from == IF w.tutorial >= 0 THEN w.tutorial
                ELSE IF w.lastTutorial >= 0 THEN w.lastTutorial ELSE -1
    IN  IF steps > 0 /\ from + 1 >= steps THEN -1 ELSE from + 1

\* C11: while the guard is on, a mapped key other than the tutorial key leaves
\* the selected action, the coordinate visibility, both tutorial stages, the
\* camera, the surface's controls and tweens unchanged, reloads nothing, sends
\* the surface nothing and redraws nothing; the tutorial key still advances
C11_Guard ==
    prevent =>
        /\ \A c \in DOMAIN keys \ {TutorialKey} :
              LET r == Handled(World, c)
              IN  /\ r.action = action /\ r.coordinates = coordinates
                  /\ r.tutorial = tutorial /\ r.lastTutorial = lastTutorial
                  /\ r.azimuth = azimuth /\ r.altitude = altitude /\ r.zoom = zoom
                  /\ r.controls = controls /\ r.tweens = tweens /\ r.frames = frames
                  /\ ~r.fx.reload /\ r.fx.cmds = <<>> /\ r.fx.draws = 0
        /\ Handled(World, TutorialKey).tutorial = Advanced(World)

\* EXIT was pressed under the guard while an action was selected and a tween
\* was running, and nothing happened
C11_Witness ==
    /\ fx.op = "onKeyDown" /\ fx.arg = ExitKey
    /\ prevent
    /\ ~fx.reload /\ fx.cmds = <<>> /\ fx.draws = 0
    /\ action \in actions
    /\ tweens # <<>>

-----------------------------------------------------------------------------
(* C12 *)

\* C12: with the guard off, onKeyDown with a mapped key other than the
\* tutorial key ends with tutorial = -1 and with lastTutorial the stage held
\* before the key when one was active, and the earlier lastTutorial otherwise
C12_Remember ==
    ~prevent =>
        \A c \in DOMAIN keys \ {TutorialKey} :
            LET r == Handled(World, c)
            IN  /\ r.tutorial = -1
                /\ r.lastTutorial = (IF tutorial >= 0 THEN tutorial ELSE lastTutorial)
                /\ Handled(r, c).tutorial = -1
                /\ Handled(r, c).lastTutorial = r.lastTutorial

\* a key other than the tutorial key was pressed with the guard off after the
\* tutorial had reached its second stage, which is remembered
C12_Witness ==
    /\ fx.op = "onKeyDown" /\ fx.arg \in DOMAIN keys \ {TutorialKey}
    /\ ~prevent
    /\ tutorial = -1
    /\ lastTutorial = 1

-----------------------------------------------------------------------------
(* C13 *)

WheelDeltas == {-400, -1, 0, 1, 400}

\* C13: onWheel(deltaY) calls the handler of the selected action exactly once,
\* with -deltaY, and draws; with no action selected it calls no handler,
\* leaves the camera, the surface, the label and the schedulers as they were,
\* sends the surface nothing and draws nothing
C13_Wheel ==
    \A d \in WheelDeltas :
        LET r == Turn(d)
        IN  IF action \in actions
            THEN r.fx.calls = <<<<action, -d>>>> /\ r.fx.draws >= 1
            ELSE /\ r.fx.calls = <<>> /\ r.fx.draws = 0 /\ r.fx.cmds = <<>>
                 /\ Rest(r) = Rest(World)

\* the wheel was turned while the throttle's window was open: the handler of
\* "Select Control Point" was called once and holds the argument back, and
\* the view was drawn
C13_Witness ==
    /\ fx.op = "onWheel"
    /\ fx.calls = <<<<"Select Control Point", 400>>>>
    /\ throttle.args = <<400>>
    /\ fx.draws = 1

\* the wheel was turned with no action selected after one had been used
C13_WitnessNone ==
    /\ fx.op = "onWheel"
    /\ action = NULL
    /\ fx.calls = <<>> /\ fx.draws = 0
    /\ zoom # Mounted.zoom

-----------------------------------------------------------------------------
(* C14 *)

InteractionOps == {"onKeyDown", "onWheel", "onClick", "onResize"}

\* C14: a handled key, wheel, click or resize event leaves idles = 0 and the
\* last interaction at the time of the event, and idles grows only in a tick
\* of the Idle Monitor, by exactly 1
C14_IdlesReset ==
    [][/\ fx'.op \in InteractionOps => idles' = 0 /\ since' = 0
       /\ idles' > idles => fx'.op = "checkLastInteraction" /\ idles' = idles + 1]_vars

\* an unmapped key was pressed while the drift of an idle tick was running:
\* the count of idle ticks is back at 0 and the clock restarted
C14_Witness ==
    /\ fx.op = "onKeyDown" /\ fx.arg \in UnmappedCodes
    /\ tweens = <<"drift">>
    /\ idles = 0 /\ since = 0

-----------------------------------------------------------------------------
(* C15 *)

\* C15: while a tutorial is active a tick of the Idle Monitor, however long
\* after the last interaction, leaves idles and everything else as it was,
\* reloads nothing, sends the surface nothing, so stops no tween and starts no
\* drift, and leaves exactly its successor pending
C15_TutorialTick ==
    tutorial >= 0 =>
        \A k \in DueChecks :
            LET r == Tick(k)
            IN  /\ r.idles = idles /\ r.since = since
                /\ ~r.fx.reload /\ r.fx.cmds = <<>> /\ r.fx.draws = 0
                /\ [r EXCEPT !.checks = checks, !.fx = fx] = World
                /\ r.checks = <<timeout>>

\* a tick has run during the tutorial, longer than the period after the last
\* interaction, while a tween was running: it stopped and started nothing
C15_Witness ==
    /\ fx.op = "checkLastInteraction"
    /\ tutorial >= 0
    /\ since > timeout
    /\ tweens # <<>>
    /\ fx.cmds = <<>>
    /\ checks = <<timeout>>

-----------------------------------------------------------------------------
(* C16 *)

\* the tutorial key in the current state: the stage it reaches is the one
\* after the active or remembered one, or -1 past the last step, and the
\* selected action, the coordinates, the camera and the surface are left alone
AdvanceReturnsEarly ==
    LET r == Handled(World, TutorialKey)
    IN  /\ r.tutorial = Advanced(World)
        /\ r.action = action /\ r.coordinates = coordinates /\ r.anchor = anchor
        /\ r.azimuth = azimuth /\ r.altitude = altitude /\ r.zoom = zoom
        /\ r.controls = controls /\ r.tweens = tweens
        /\ r.fx.cmds = <<>> /\ r.fx.draws = 0 /\ ~r.fx.reload

\* the stage after the active stage s, or -1 past the last step
After(s) == IF steps > 0 /\ s + 1 >= steps THEN -1 ELSE s + 1

\* interrupting the active stage with key c and then pressing the tutorial
\* key reaches the stage after the interrupted one
Resumes(c) ==
    (tutorial >= 0 /\ ~prevent) =>
        Handled(Press(World, c), TutorialKey).tutorial = After(tutorial)

\* C16 as stated: the tutorial key advances and returns early, and after an
\* interruption by any other mapped key it resumes after the interrupted stage
C16_AsStated ==
    /\ AdvanceReturnsEarly
    /\ \A c \in DOMAIN keys \ {TutorialKey} : Resumes(c)

\* C16, amended: the tutorial key advances and returns early, and after an
\* interruption by any other mapped key but EXIT it resumes after the
\* interrupted stage; after EXIT, which reloads, it starts again at stage 0
C16_Advance ==
    /\ AdvanceReturnsEarly
    /\ \A c \in DOMAIN keys \ {TutorialKey, ExitKey} : Resumes(c)
    /\ ~prevent => Handled(Press(World, ExitKey), TutorialKey).tutorial = After(-1)

\* the tutorial key was pressed after the first stage had been interrupted:
\* the tutorial is at its second stage, with nothing sent to the surface
C16_Witness ==
    /\ fx.op = "onKeyDown" /\ fx.arg = TutorialKey
    /\ tutorial = 1
    /\ lastTutorial = -1
    /\ fx.cmds = <<>> /\ fx.draws = 0

-----------------------------------------------------------------------------
(* C17 *)

\* the sample (i, j) of g lies outside the hard bounds on some axis
OutOfBounds(g, i, j) ==
    \E c \in {Project(g, i, j)[1], Project(g, i, j)[2]} :
        c < virtualMinLower \/ c > virtualMaxUpper

\* the samples a scan takes when an out-of-bounds sample ends its own scan
\* line only: those with no out-of-bounds sample earlier on their line
Sampled(g) ==
    {<<i, j>> \in (0..ProbeSteps) \X (0..ProbeSteps) :
        \A k \in 0..(j - 1) : ~OutOfBounds(g, i, k)}

\* C17: when a sample lies outside the hard bounds, whatever the others are,
\* one Auto-Fit invocation multiplies zoom by exactly 1 - 0.1 * speed and
\* schedules exactly one follow-up with the same speed, having sampled every
\* scan line up to its first out-of-bounds sample
C17_ZoomOut ==
    (FitDone /\ ~AllWithin(input.grid)) =>
        /\ zoom * Milli = Mounted.zoom * (Milli - input.speed)
        /\ frames = <<input.speed>>
        /\ fx.probes = Cardinality(Sampled(input.grid))

\* an invocation with speed 1 met out-of-bounds samples on two scan lines, at
\* (2, 2) and at (5, 5), sampled the other nine lines in full and zoomed out
C17_Witness ==
    /\ FitDone
    /\ OutOfBounds(input.grid, 2, 2) /\ OutOfBounds(input.grid, 5, 5)
    /\ fx.probes = 9 * (ProbeSteps + 1) + 3 + 6
    /\ input.speed = 100
    /\ zoom = 900
    /\ frames = <<100>>

-----------------------------------------------------------------------------
(* C18 *)

\* the loop has run an invocation that found the surface in view and closely
\* framed, and nothing further is scheduled
Converged ==
    /\ input.kind = "loop"
    /\ fx.op \in {"zoomToFit", "fitFrame"}
    /\ frames = <<>>
    /\ AllWithin(SurfaceAt(input.extent, zoom))
    /\ ExtremumInBand(SurfaceAt(input.extent, zoom))

\* the frame callback that is pending, run now
NextFrame ==
    fitFrame(Begin(World, "fitFrame", Head(frames)),
             [grid |-> SurfaceAt(input.extent, zoom), lab |-> SomeLabel])

\* C18: for every speed the callers pass, the loop started by zoomToFit(speed)
\* on a static surface whose projection is proportional to the zoom, with
\* every requested frame run and nothing else moving the camera, makes at
\* most LoopBudget invocations: while a frame is pending the next invocation
\* can run, and once none is pending the last invocation found the surface
\* in view and a close fit
C18_Converges ==
    input.kind = "loop" =>
        /\ input.calls <= LoopBudget
        /\ frames # <<>> => Bounded(NextFrame)
        /\ (frames = <<>> /\ fx.op # "mount") => Converged

\* the loop at speed 1 ended in a frame callback after it had zoomed in past
\* the band and out again more than once
C18_Witness ==
    /\ Converged
    /\ fx.op = "fitFrame"
    /\ input.speed = 100
    /\ input.extent = 899
    /\ input.calls > 4

\* the loop at speed 0.01 ended after more than 400 invocations
C18_WitnessSlow ==
    /\ Converged
    /\ input.speed = 1
    /\ input.calls > 400

-----------------------------------------------------------------------------
(* C20 *)

\* C20: both tutorial stages are at least -1 and, the tutorial having steps,
\* the active stage is at most steps - 1; tutorial(stage) with a stage at or
\* past the number of steps sets both to -1, the tutorial key does so when the
\* stage it asks for is past the last step, and pressed again it reaches stage 0
C20_StageRange ==
    /\ tutorial >= -1 /\ lastTutorial >= -1
    /\ steps > 0 => tutorial <= steps - 1
    /\ \A n \in 1..(TutorialSteps + 1) : \A stage \in n..(n + 1) :
          LET r == tutorialStageOf(World, stage, n)
          IN  r.tutorial = -1 /\ r.lastTutorial = -1
    /\ Advanced(World) = -1 =>
          LET r == Press(World, TutorialKey)
          IN  /\ r.tutorial = -1 /\ r.lastTutorial = -1
              /\ Press(r, TutorialKey).tutorial = 0

\* the tutorial key was pressed at the last stage and the tutorial has exited
C20_Witness ==
    /\ fx.op = "onKeyDown" /\ fx.arg = TutorialKey
    /\ tutorial = -1 /\ lastTutorial = -1

-----------------------------------------------------------------------------
(* C21 *)

PointKeys == {c \in DOMAIN keys : keys[c] \in AxisActions \cup {"Select Control Point"}}

CameraKeys ==
    {c \in DOMAIN keys : keys[c] \in {"XY Camera Rotation", "YZ Camera Rotation", "Zoom"}}

NeutralKeys == DiscreteKeys \cup {TutorialKey}

\* C21: the coordinates are visible exactly when the surface's controls are
\* active.  With the guard off, a select or axis-move key pressed while the
\* controls are off and the key's action is not the selected one activates the
\* controls and shows the coordinates; a rotate or zoom key, and the key of
\* the selected action, deactivate them and hide the coordinates; MORPH,
\* ZOOMTOFIT, RESTORE, DISPLAY and the tutorial key change neither; nor do
\* the wheel, a click or a check of the Idle Monitor
C21_CoordinatesWithControls ==
    /\ coordinates = controls
    /\ ~prevent =>
          /\ \A c \in PointKeys :
                LET r == Handled(World, c)
                IN  IF keys[c] = action THEN ~r.controls /\ ~r.coordinates
                    ELSE r.controls /\ r.coordinates
          /\ \A c \in CameraKeys :
                LET r == Handled(World, c)
                IN  ~r.controls /\ ~r.coordinates
    /\ \A c \in NeutralKeys :
          LET r == Handled(World, c)
          IN  r.controls = controls /\ r.coordinates = coordinates
    /\ \A d \in WheelDeltas :
          Turn(d).controls = controls /\ Turn(d).coordinates = coordinates
    /\ LET r == onClick(Begin(World, "onClick", 0))
       IN  r.controls = controls /\ r.coordinates = coordinates
    /\ \A k \in DOMAIN checks :
          Tick(k).controls = controls /\ Tick(k).coordinates = coordinates

\* an axis-move key, pressed while the controls were off, has activated the
\* controls and shown the coordinates
C21_Witness ==
    /\ fx.op = "onKeyDown" /\ fx.arg = 74
    /\ \E i \in DOMAIN fx.cmds : fx.cmds[i] = "activateControls"
    /\ controls /\ coordinates
    /\ action = "Move Control Point Along X Axis"

-----------------------------------------------------------------------------
(* C22 *)

\* the selected action is none or one with a wheel handler
WheelActionOrNone == action \in actions \cup {NULL}

\* C22 as stated: the selected action is none or one of the seven with a
\* wheel handler, and MORPH, ZOOMTOFIT, RESTORE, DISPLAY, EXIT and the
\* tutorial key leave the selected action what it was
C22_AsStated ==
    /\ WheelActionOrNone
    /\ \A c \in NeutralKeys \cup {ExitKey} : Press(World, c).action = action

\* C22, amended: the selected action is none or one of the seven with a wheel
\* handler; MORPH, ZOOMTOFIT, RESTORE, DISPLAY and the tutorial key leave the
\* selected action what it was; EXIT does not store an action either, but
\* with the guard off it reloads the page, after which no action is selected
C22_WheelAction ==
    /\ WheelActionOrNone
    /\ \A c \in NeutralKeys : Press(World, c).action = action
    /\ Handled(World, ExitKey).action = action
    /\ Press(World, ExitKey).action = (IF prevent THEN action ELSE NULL)

\* MORPH was pressed with the guard off and Zoom is still the selected action
C22_Witness ==
    /\ fx.op = "onKeyDown" /\ fx.arg = 65
    /\ ~prevent
    /\ "randomize" \in {fx.cmds[i] : i \in DOMAIN fx.cmds}
    /\ action = "Zoom"

-----------------------------------------------------------------------------
(* C23 *)

\* the camera of w: what a frame rendered now would show
Camera(w) == <<w.azimuth, w.altitude, w.zoom>>

\* the wheel turned by deltaY right after key c selected its action
TurnAfter(c, deltaY) ==
    Finish(onWheel(Begin(Press(World, c), "onWheel", deltaY), deltaY, Env(Framed)))

\* C23: when no frame callback of Auto-Fit is pending, the last rendered frame
\* shows the camera at its current azimuth, altitude and zoom.  A wheel event
\* on a rotation or zoom action, and a frame of a tween with or without
\* drift, end with the frame rendered from the camera they leave; every
\* Auto-Fit invocation that changes the zoom requests one frame callback, and
\* a frame callback of Auto-Fit ends with the frame rendered from the camera
\* it leaves
C23_Redrawn ==
    /\ frames = <<>> => rendered = Camera(World)
    /\ \A c \in CameraKeys, d \in WheelDeltas :
          (Press(World, c).action = keys[c]) =>
              TurnAfter(c, d).rendered = Camera(TurnAfter(c, d))
    /\ \A k \in DOMAIN tweens, d \in {0, 1} :
          LET r == tweenFrame(Begin(World, "tweenFrame", k), k, d, SomeLabel)
          IN  r.rendered = Camera(r)
    /\ \A g \in Grids, sp \in Speeds :
          LET r == zoomToFit(Begin(World, "zoomToFit", sp), sp, g)
          IN  r.zoom # zoom => r.frames = Append(frames, sp)
    /\ \A g \in Grids :
          frames # <<>> =>
              LET r == fitFrame(Begin(World, "fitFrame", Head(frames)), Env(g))
              IN  r.rendered = Camera(r)

\* the completion callback of a tween has zoomed in without drawing: the last
\* rendered frame shows the earlier zoom, and a frame callback is pending
C23_Witness ==
    /\ fx.op = "tweenComplete"
    /\ rendered # Camera(World)
    /\ rendered[3] < zoom
    /\ frames # <<>>

\* the pending frame callback has run after that: Auto-Fit found the surface
\* closely framed, requested no further frame, and the frame it drew shows
\* the zoom the loop has reached
C23_WitnessDrawn ==
    /\ fx.op = "fitFrame"
    /\ frames = <<>>
    /\ zoom > Mounted.zoom
    /\ rendered = Camera(World)

=============================================================================
